---- MODULE Spec2Model ----
(***************************************************************************)
(* Model of the script runner of jira-cli (package script, the second Go   *)
(* file held in src/internal/cmd/issue/tclog/tclog.go) and of the user     *)
(* lookup it calls (package cmdcommon, src/unnamed/part_000).              *)
(*                                                                         *)
(* A Go string is a sequence of one-character strings, so that the regular *)
(* expression of interpolateVars, the sentinel test of SetupArgs and       *)
(* strconv.Atoi work on characters.  A dynamic value (Go `any` as decoded  *)
(* from YAML) is a record tagged with its dynamic type.                    *)
(***************************************************************************)
EXTENDS Integers, Sequences, FiniteSets, TLC

\* ------------------------------------------------------------------------
\* Bounds of the model.
\* ------------------------------------------------------------------------
MaxActions == 2     \* longest script, in actions
MaxArgs == 2        \* most command-line arguments after the file name
MaxLen == 4         \* longest string drawn for the string-level checks
MaxEntries == 2     \* most entries in one directory of artifacts

\* ------------------------------------------------------------------------
\* Characters and strings.
\* ------------------------------------------------------------------------
Digits == {"0", "1", "2", "3", "4", "5", "6", "7", "8", "9"}

Lower == {"a", "b", "c", "d", "e", "f", "g", "h", "i", "j", "k", "l", "m",
          "n", "o", "p", "q", "r", "s", "t", "u", "v", "w", "x", "y", "z"}

Upper == {"A", "B", "C", "D", "E", "F", "G", "H", "I", "J", "K", "L", "M",
          "N", "O", "P", "Q", "R", "S", "T", "U", "V", "W", "X", "Y", "Z"}

\* The class \w of Go's regexp package: [0-9A-Za-z_].
WordChars == Digits \cup Lower \cup Upper \cup {"_"}

IsWord(c) == c \in WordChars

\* obj[a:b] of Go: the half-open range of 0-based indices a..b-1.
Slice(s, a, b) == SubSeq(s, a + 1, b)

RECURSIVE Concat(_)
Concat(ss) == IF ss = <<>> THEN <<>> ELSE Head(ss) \o Concat(Tail(ss))

\* ------------------------------------------------------------------------
\* Dynamic values: string | []any | map[string]any | anything else.
\* ------------------------------------------------------------------------
NoMap == [k \in {} |-> <<>>]

Str(s) == [t |-> "string", s |-> s, xs |-> <<>>, m |-> NoMap]

List(xs) == [t |-> "slice", s |-> <<>>, xs |-> xs, m |-> NoMap]

Map(m) == [t |-> "map", s |-> <<>>, xs |-> <<>>, m |-> m]

\* A YAML scalar that is not a string (an int, a bool, a float, null).
Other(tp) == [t |-> tp, s |-> <<>>, xs |-> <<>>, m |-> NoMap]

\* A finite map given by its pairs <<key, value>>.
MapOf(pairs) ==
    [k \in {p[1] : p \in pairs} |-> (CHOOSE p \in pairs : p[1] = k)[2]]

\* ------------------------------------------------------------------------
\* Errors returned by the script package, by the format string they use.
\* ------------------------------------------------------------------------
NoErr == "nil"

ErrUnknownVariable == "unknown variable %v in script"

ErrUnexpectedType == "unexpected script data of type %T"

ErrNoAction == "script contains an action with no 'action' property"

ErrInvalidAction == "script contains an action with an invalid 'action' property: %v"

ErrCustomNotMap == "'custom' should contain a map from custom field name to value"

ErrUnknownBuiltin == "unknown built-in variable %v"

ErrMissingArg == "missing command line argument %v: %v"

ErrFind == "unknown command"

ErrExecute == "subcommand error"

ErrSelectUser == "survey error"

ErrFindMe == "client.Me error"

ErrFindUser == "failed to fetch users: %w"

\* ------------------------------------------------------------------------
\* interpolateVars, case string.
\* ------------------------------------------------------------------------

\* A reference name of one character only.
WordRunEndOne(s, i) == i + 1

\* The end (exclusive, 0-based) of the run of word characters that starts at
\* 0-based index i: \w+ is greedy.
RECURSIVE WordRunEnd(_, _)
WordRunEnd(s, i) ==
    IF i < Len(s) /\ IsWord(s[i + 1]) THEN WordRunEnd(s, i + 1) ELSE i

\* varRe.FindAllStringIndex(obj, -1) from 0-based index pos on: the leftmost
\* non-overlapping matches <<start, end>> of \$\w+.
RECURSIVE FindAllFrom(_, _)
FindAllFrom(s, pos) ==
    IF pos >= Len(s) THEN <<>>
    ELSE IF s[pos + 1] = "$" /\ pos + 1 < Len(s) /\ IsWord(s[pos + 2])
         THEN LET end == WordRunEnd(s, pos + 1)
              IN  <<(<<pos, end>>)>> \o FindAllFrom(s, end)
         ELSE FindAllFrom(s, pos + 1)

FindAllStringIndex(s) == FindAllFrom(s, 0)

Ok(v) == [ok |-> TRUE, val |-> v, err |-> NoErr]

Fail(e) == [ok |-> FALSE, val |-> Other("nil"), err |-> e]

\* A lookup that never misses: the zero value stands in for a missing key.
MapGetZero(define, varName) ==
    [ok |-> TRUE,
     val |-> IF varName \in DOMAIN define THEN define[varName] ELSE <<>>]

\* val, ok := define[varName]: the zero value and false for a missing key
\* (also when the map is nil, which the model holds as the empty map).
MapGet(define, varName) ==
    [ok |-> varName \in DOMAIN define,
     val |-> IF varName \in DOMAIN define THEN define[varName] ELSE <<>>]

\* The loop over the matches: newString and lastIdx are the loop's variables.
RECURSIVE InterpolateLoop(_, _, _, _, _)
InterpolateLoop(obj, define, matches, newString, lastIdx) ==
    IF matches = <<>>
    THEN Ok(Str(newString \o Slice(obj, lastIdx, Len(obj))))
    ELSE LET match == Head(matches)
             varName == Slice(obj, match[1] + 1, match[2])
             got == MapGet(define, varName)
         IN  IF ~got.ok
             THEN Fail(ErrUnknownVariable)
             ELSE InterpolateLoop(obj, define, Tail(matches),
                      newString \o Slice(obj, lastIdx, match[1]) \o got.val,
                      match[2])

interpolateString(obj, define) ==
    InterpolateLoop(obj, define, FindAllStringIndex(obj), <<>>, 0)

\* ------------------------------------------------------------------------
\* interpolateVars: the set of results the call can return.  The result is
\* unique unless the value holds a map with several failing entries: Go
\* ranges over a map in an unspecified order and the first failing entry
\* decides the error.
\* ------------------------------------------------------------------------
Failing(outs) == \E r \in outs : ~r.ok

TheVal(outs) == (CHOOSE r \in outs : r.ok).val

\* The new values appended to the slice made with len(obj) elements.
SliceResultAppended(outs) ==
    LET bad == {i \in DOMAIN outs : Failing(outs[i])}
    IN  IF bad = {}
        THEN {Ok(List([i \in DOMAIN outs |-> Other("nil")]
                      \o [i \in DOMAIN outs |-> TheVal(outs[i])]))}
        ELSE outs[CHOOSE i \in bad : \A j \in bad : i <= j]

\* case []any, given the results for the elements: the first failing
\* element ends the loop, otherwise newSlice[idx] = newVal for every idx.
SliceResult(outs) ==
    LET bad == {i \in DOMAIN outs : Failing(outs[i])}
    IN  IF bad = {}
        THEN {Ok(List([i \in DOMAIN outs |-> TheVal(outs[i])]))}
        ELSE outs[CHOOSE i \in bad : \A j \in bad : i <= j]

\* case map[string]any, given the results for the entries: the failing
\* entry ranged over first ends the loop, otherwise newMap[key] = newVal for
\* every key.
MapResult(outs) ==
    LET bad == {k \in DOMAIN outs : Failing(outs[k])}
    IN  IF bad = {}
        THEN {Ok(Map([k \in DOMAIN outs |-> TheVal(outs[k])]))}
        ELSE UNION {outs[k] : k \in bad}

\* A value of any other type is handed back as it is.
DefaultCasePassThrough(o) == {Ok(o)}

\* default: any other dynamic type is an error (lines 267-269).
DefaultCase(o) == {Fail(ErrUnexpectedType)}

RECURSIVE interpolateVars(_, _)
interpolateVars(o, define) ==
    CASE o.t = "string" -> {interpolateString(o.s, define)}
      [] o.t = "slice" ->
            SliceResult([i \in 1..Len(o.xs) |-> interpolateVars(o.xs[i], define)])
      [] o.t = "map" ->
            MapResult([k \in DOMAIN o.m |-> interpolateVars(o.m[k], define)])
      [] OTHER -> DefaultCase(o)


\* ------------------------------------------------------------------------
\* Byte order of strings (cmp.Compare on strings, the key order of fmt and
\* of encoding/json).  AsciiOrder lists the characters of the model in
\* ascending byte value.
\* ------------------------------------------------------------------------
AsciiOrder ==
    <<" ", "\"", "$", "&", "+", ",", "-", ".",
      "0", "1", "2", "3", "4", "5", "6", "7", "8", "9", ":", "<", "=", ">",
      "A", "B", "C", "D", "E", "F", "G", "H", "I", "J", "K", "L", "M",
      "N", "O", "P", "Q", "R", "S", "T", "U", "V", "W", "X", "Y", "Z",
      "[", "\\", "]", "_",
      "a", "b", "c", "d", "e", "f", "g", "h", "i", "j", "k", "l", "m",
      "n", "o", "p", "q", "r", "s", "t", "u", "v", "w", "x", "y", "z",
      "{", "}", "~">>

Ord(c) == CHOOSE i \in 1..Len(AsciiOrder) : AsciiOrder[i] = c

\* cmp.Compare(a, b) on strings: -1, 0 or +1.
RECURSIVE Compare(_, _)
Compare(a, b) ==
    IF a = <<>> /\ b = <<>> THEN 0
    ELSE IF a = <<>> THEN -1
    ELSE IF b = <<>> THEN 1
    ELSE IF Ord(Head(a)) < Ord(Head(b)) THEN -1
    ELSE IF Ord(Head(a)) > Ord(Head(b)) THEN 1
    ELSE Compare(Tail(a), Tail(b))

\* All orders in which the elements of the finite set S can be listed.
RECURSIVE Perms(_)
Perms(S) ==
    IF S = {} THEN {<<>>}
    ELSE UNION {{<<x>> \o p : p \in Perms(S \ {x})} : x \in S}

\* The keys of a map in ascending byte order.
SortedKeys(S) ==
    CHOOSE p \in Perms(S) : \A i, j \in DOMAIN p : i < j => Compare(p[i], p[j]) < 0

RECURSIVE Join(_, _)
Join(ss, sep) ==
    IF ss = <<>> THEN <<>>
    ELSE IF Len(ss) = 1 THEN ss[1]
    ELSE ss[1] \o sep \o Join(Tail(ss), sep)

\* ------------------------------------------------------------------------
\* strconv.Atoi on a string too short to leave the range of int: an
\* optional sign followed by at least one decimal digit.
\* ------------------------------------------------------------------------
DigitVal(c) == Ord(c) - Ord("0")

RECURSIVE DecimalOf(_, _)
DecimalOf(ds, acc) ==
    IF ds = <<>> THEN acc ELSE DecimalOf(Tail(ds), 10 * acc + DigitVal(Head(ds)))

Atoi(s) ==
    LET signed == s /= <<>> /\ s[1] \in {"+", "-"}
        ds == IF signed THEN Tail(s) ELSE s
    IN  IF ds = <<>> \/ \E i \in DOMAIN ds : ds[i] \notin Digits
        THEN [ok |-> FALSE, n |-> 0]
        ELSE [ok |-> TRUE,
              n |-> IF signed /\ s[1] = "-" THEN 0 - DecimalOf(ds, 0)
                    ELSE DecimalOf(ds, 0)]

\* ------------------------------------------------------------------------
\* fmt.Sprint of a dynamic value (the %v verb): a string is printed as it
\* is, a slice as [e1 e2], a map as map[k1:v1 k2:v2] with sorted keys.
\* ------------------------------------------------------------------------
RECURSIVE Sprint(_)
Sprint(v) ==
    CASE v.t = "string" -> v.s
      [] v.t = "slice" ->
            <<"[">> \o Join([i \in 1..Len(v.xs) |-> Sprint(v.xs[i])], <<" ">>) \o <<"]">>
      [] v.t = "map" ->
            LET ks == SortedKeys(DOMAIN v.m)
            IN  <<"m", "a", "p", "[">>
                \o Join([i \in 1..Len(ks) |-> ks[i] \o <<":">> \o Sprint(v.m[ks[i]])], <<" ">>)
                \o <<"]">>
      [] OTHER -> <<"<", v.t, ">">>

\* ------------------------------------------------------------------------
\* json.Marshal: compact, map keys sorted, strings quoted and escaped
\* (the quote, the backslash and the HTML characters < > &).
\* ------------------------------------------------------------------------
JsonEscape(c) ==
    CASE c = "\"" -> <<"\\", "\"">>
      [] c = "\\" -> <<"\\", "\\">>
      [] c = "<" -> <<"\\", "u", "0", "0", "3", "c">>
      [] c = ">" -> <<"\\", "u", "0", "0", "3", "e">>
      [] c = "&" -> <<"\\", "u", "0", "0", "2", "6">>
      [] OTHER -> <<c>>

JsonString(s) ==
    <<"\"">> \o Concat([i \in 1..Len(s) |-> JsonEscape(s[i])]) \o <<"\"">>

RECURSIVE JsonMarshal(_)
JsonMarshal(v) ==
    CASE v.t = "string" -> JsonString(v.s)
      [] v.t = "slice" ->
            <<"[">> \o Join([i \in 1..Len(v.xs) |-> JsonMarshal(v.xs[i])], <<",">>) \o <<"]">>
      [] v.t = "map" ->
            LET ks == SortedKeys(DOMAIN v.m)
            IN  <<"{">>
                \o Join([i \in 1..Len(ks) |->
                            JsonString(ks[i]) \o <<":">> \o JsonMarshal(v.m[ks[i]])], <<",">>)
                \o <<"}">>
      [] OTHER -> <<"n", "u", "l", "l">>


\* ------------------------------------------------------------------------
\* Names the code compares against.
\* ------------------------------------------------------------------------
kAction == <<"a", "c", "t", "i", "o", "n">>

kArgs == <<"a", "r", "g", "s">>

kCustom == <<"c", "u", "s", "t", "o", "m">>

kIssueKey == <<"i", "s", "s", "u", "e", "_", "k", "e", "y">>

sIssue == <<"i", "s", "s", "u", "e">>

sCreate == <<"c", "r", "e", "a", "t", "e">>

sClone == <<"c", "l", "o", "n", "e">>

sChooseUser == <<"c", "h", "o", "o", "s", "e", "_", "u", "s", "e", "r">>

sMe == <<"m", "e">>

sNoInput == <<"-", "-", "n", "o", "-", "i", "n", "p", "u", "t">>

sDashDash == <<"-", "-">>

sJsonPrefix == <<"j", "s", "o", "n", ":">>

\* The options of the selection prompt (cmdcommon).
optionCancel == "Cancel"

optionSearch == "[Search...]"

OptionMe == "Me"

\* ------------------------------------------------------------------------
\* The action translator: the body of `for key, value := range action`.
\* ------------------------------------------------------------------------

\* Every entry in the raw form, a map printed by fmt.
CustomArgsRaw(fname, fvalue) ==
    <<sDashDash \o kCustom, fname \o <<"=">> \o Sprint(fvalue)>>

\* One entry of `custom`: --custom json:name=<json> or --custom name=value.
CustomArgs(fname, fvalue) ==
    IF fvalue.t = "map"
    THEN <<sDashDash \o kCustom, sJsonPrefix \o fname \o <<"=">> \o JsonMarshal(fvalue)>>
    ELSE <<sDashDash \o kCustom, fname \o <<"=">> \o Sprint(fvalue)>>

\* case "args": the elements of a slice, or the value itself.
ArgsArgs(value) ==
    IF value.t = "slice"
    THEN [i \in 1..Len(value.xs) |-> Sprint(value.xs[i])]
    ELSE <<Sprint(value)>>

\* The flag once, followed by all the elements.
FlagArgsOnce(key, value) ==
    IF value.t = "slice"
    THEN <<sDashDash \o key>> \o [i \in 1..Len(value.xs) |-> Sprint(value.xs[i])]
    ELSE <<sDashDash \o key, Sprint(value)>>

\* default: the flag once per element of a slice, or once with the value.
FlagArgs(key, value) ==
    IF value.t = "slice"
    THEN Concat([i \in 1..Len(value.xs) |-> <<sDashDash \o key, Sprint(value.xs[i])>>])
    ELSE <<sDashDash \o key, Sprint(value)>>

\* The argument lists one field can append: one list, or one per order in
\* which the entries of `custom` are ranged over.
FieldArgs(key, value) ==
    CASE key = kAction -> {<<>>}
      [] key = kArgs -> {ArgsArgs(value)}
      [] key = kCustom ->
            {Concat([i \in 1..Len(p) |-> CustomArgs(p[i], value.m[p[i]])]) :
                p \in Perms(DOMAIN value.m)}
      [] OTHER -> {FlagArgs(key, value)}

\* What the fields order[i..] append, for every order of the custom entries.
RECURSIVE TranslateFrom(_, _, _)
TranslateFrom(act, order, i) ==
    IF i > Len(order) THEN {<<>>}
    ELSE {a \o rest : a \in FieldArgs(order[i], act.m[order[i]]),
                       rest \in TranslateFrom(act, order, i + 1)}

\* The loop never fails.
TranslateNeverFails(act) == FALSE

\* The loop fails exactly when `custom` is present and is not a map: every
\* order reaches that field and nothing else in the loop returns an error
\* (json.Marshal cannot fail on maps, slices and strings).
TranslateFails(act) == kCustom \in DOMAIN act.m /\ act.m[kCustom].t /= "map"

\* Only the field ranged over first is translated.
TranslateFirstField(act, args) ==
    {args \o a : a \in UNION {FieldArgs(order[1], act.m[order[1]]) :
                                  order \in Perms(DOMAIN act.m)}}

\* The argument vectors the loop can build on top of args.
Translate(act, args) ==
    {args \o rest : rest \in UNION {TranslateFrom(act, order, 1) : order \in Perms(DOMAIN act.m)}}


\* ------------------------------------------------------------------------
\* Script.SetupArgs: the sort and the body of the loop over the keys.
\* ------------------------------------------------------------------------

\* The orders slices.SortFunc can leave the keys in: the keys are collected
\* by ranging over the map (any order) and the sort is not stable, so keys
\* with equal values end in any order.
RECURSIVE SortedFrom(_, _)
SortedFrom(define, S) ==
    IF S = {} THEN {<<>>}
    ELSE UNION {{<<k>> \o p : p \in SortedFrom(define, S \ {k})} :
                   k \in {x \in S : \A y \in S : Compare(define[x], define[y]) <= 0}}

\* The keys in the order of their names.
SortedByName(define) == {SortedKeys(DOMAIN define)}

SortedByValue(define) == SortedFrom(define, DOMAIN define)

\* ul.SelectUser, by the answer of the prompt: "error" stands for a failed
\* fetch of the users or a failed prompt, optionCancel ends the process with
\* os.Exit(0), optionSearch only repeats the prompt; any other answer is
\* returned.
SelectUser(ans) ==
    CASE ans = "error" -> [kind |-> "err", choice |-> "", err |-> ErrSelectUser]
      [] ans = optionCancel -> [kind |-> "exit", choice |-> "", err |-> NoErr]
      [] OTHER -> [kind |-> "ok", choice |-> ans, err |-> NoErr]

\* The user of the directory offered by the prompt, and the current user.
UserFullName == "Ann Lee (ann)"

UserName == <<"a", "n", "n">>

MeLogin == <<"j", "o", "e">>

Answers == {"error", optionCancel, OptionMe, UserFullName}

\* The bound check off by one.
MissingArgOffByOne(args, ival) == Len(args) <= ival

\* len(args) < ival
MissingArg(args, ival) == Len(args) < ival

Keep == [kind |-> "keep", val |-> <<>>, err |-> NoErr]

Set(v) == [kind |-> "set", val |-> v, err |-> NoErr]

Err(e) == [kind |-> "err", val |-> <<>>, err |-> e]

Exit0 == [kind |-> "exit", val |-> <<>>, err |-> NoErr]

PanicIndex == [kind |-> "panic", val |-> <<>>, err |-> "index out of range"]

\* varname[1:] of the escaped tilde branch.
Unescape(varname) == Tail(varname)

\* The body of the loop for one value: ans is the answer given to the
\* prompt, meOk and usersOk tell whether client.Me and the user search work.
Resolve(val, args, ans, meOk, usersOk) ==
    IF val = <<>> THEN PanicIndex                      \* val[0] of ""
    ELSE IF val[1] /= "~" THEN Keep
    ELSE LET varname == Tail(val)
             findMe == IF meOk THEN Set(MeLogin) ELSE Err(ErrFindMe)
         IN  IF Len(varname) > 0 /\ varname[1] = "~" THEN Set(Unescape(varname))
             ELSE IF varname = sChooseUser
             THEN LET sel == SelectUser(ans)
                  IN  IF sel.kind = "err" THEN Err(sel.err)
                      ELSE IF sel.kind = "exit" THEN Exit0
                      ELSE IF sel.choice = OptionMe THEN findMe
                      ELSE IF usersOk THEN Set(UserName) ELSE Err(ErrFindUser)
             ELSE IF varname = sMe THEN findMe
             ELSE LET a == Atoi(varname)
                  IN  IF ~a.ok THEN Err(ErrUnknownBuiltin)
                      ELSE IF MissingArg(args, a.n) THEN Err(ErrMissingArg)
                      ELSE IF a.n - 1 < 0 THEN PanicIndex   \* args[ival - 1]
                      ELSE Set(args[a.n])

\* ------------------------------------------------------------------------
\* The state of one run of `jira issue script FILENAME ARGS...`.
\* ------------------------------------------------------------------------
VARIABLES
    declared,     \* the define section of the script file as decoded
    Define,       \* script.Define
    defineNil,    \* script.Define is the nil map (no define section)
    Actions,      \* script.Actions
    scriptArgs,   \* args[1:] of the command line
    noInput,      \* the --no-input flag of the script command
    pc,           \* where the run is
    keys,         \* SetupArgs: the sorted keys
    ki,           \* SetupArgs: the position of the loop in keys
    idx,          \* runScript: the position of the loop in script.Actions
    action,       \* runScript: the interpolated action
    name,         \* runScript: the action's name
    argv,         \* runScript: args, the argument vector
    consumer,     \* runScript: consumer.issueKey
    installed,    \* the subcommands whose Run was replaced by a callback
    err,          \* the error returned, or the panic
    exitCode,     \* the exit status of the process, -1 while it runs
    executed,     \* the calls of root.ExecuteC made so far
    prompts,      \* the variables a selection prompt was shown for
    tree,         \* FindArtifact: the directories of the build's artifacts
    jsonErrors,   \* FindArtifact: the server's error bodies are JSON objects
    queue,        \* FindArtifact: queue
    fpc,          \* FindArtifact: where the call is
    foundPath,    \* FindArtifact: the path returned
    findErr,      \* FindArtifact: the error returned, or the panic
    requested     \* FindArtifact: the requests made, with the status received

vars == <<declared, Define, defineNil, Actions, scriptArgs, noInput, pc, keys, ki,
          idx, action, name, argv, consumer, installed, err, exitCode, executed,
          prompts, tree, jsonErrors, queue, fpc, foundPath, findErr, requested>>

findVars == <<tree, jsonErrors, queue, fpc, foundPath, findErr, requested>>

runVars == <<declared, Define, defineNil, Actions, scriptArgs, noInput, pc, keys, ki,
             idx, action, name, argv, consumer, installed, err, exitCode, executed,
             prompts>>

scriptVars == <<declared, Actions, scriptArgs, noInput>>

setupVars == <<keys, ki, prompts>>

loopVars == <<idx, action, name, argv, consumer, installed, executed>>

\* No directory at all: every request is answered 404.
NoTree == [p \in {} |-> <<>>]

\* FindArtifact is not called by a run of a script.
FindIdle ==
    /\ tree = NoTree
    /\ jsonErrors = TRUE
    /\ queue = <<>>
    /\ fpc = "idle"
    /\ foundPath = <<>>
    /\ findErr = NoErr
    /\ requested = <<>>

\* cmdutil.ExitIfError: exit with a non-zero status on an error.
ExitIfError(e) == IF e = NoErr THEN 0 ELSE 1

\* `return err` out of runScript, back in script().
ReturnErr(e) ==
    /\ pc' = "failed"
    /\ err' = e
    /\ exitCode' = ExitIfError(e)

\* A run-time panic ends the process with status 2.
Panic(e) ==
    /\ pc' = "panic"
    /\ err' = e
    /\ exitCode' = 2

Running == UNCHANGED <<err, exitCode>>

\* The assignment leaves an entry that is there as it is.
MapSetIfAbsent(m, k, v) == [x \in DOMAIN m \cup {k} |-> IF x \in DOMAIN m THEN m[x] ELSE v]

\* m[k] = v on a non-nil map.
MapSet(m, k, v) == [x \in DOMAIN m \cup {k} |-> IF x = k THEN v ELSE m[x]]

\* SetupArgs, lines 284-290.
SetupSort ==
    /\ pc = "SetupArgs"
    /\ \E p \in SortedByValue(Define) : keys' = p
    /\ ki' = 1
    /\ pc' = "resolve"
    /\ Running
    /\ UNCHANGED <<Define, defineNil, prompts>>
    /\ UNCHANGED scriptVars
    /\ UNCHANGED findVars
    /\ UNCHANGED loopVars

\* SetupArgs, one pass of the loop of lines 292-334.
SetupKey ==
    /\ pc = "resolve"
    /\ ki <= Len(keys)
    /\ LET key == keys[ki]
           val == Define[key]
       IN  /\ prompts' = IF val = <<"~">> \o sChooseUser
                         THEN Append(prompts, key) ELSE prompts
           /\ \E ans \in Answers, meOk \in BOOLEAN, usersOk \in BOOLEAN :
                LET r == Resolve(val, scriptArgs, ans, meOk, usersOk)
                IN  CASE r.kind = "keep" ->
                            /\ ki' = ki + 1
                            /\ UNCHANGED <<Define, pc>>
                            /\ Running
                      [] r.kind = "set" ->
                            /\ ki' = ki + 1
                            /\ Define' = [Define EXCEPT ![key] = r.val]
                            /\ UNCHANGED pc
                            /\ Running
                      [] r.kind = "err" ->
                            /\ ReturnErr(r.err)
                            /\ UNCHANGED <<Define, ki>>
                      [] r.kind = "exit" ->
                            /\ pc' = "exited"
                            /\ exitCode' = 0
                            /\ UNCHANGED <<Define, ki, err>>
                      [] r.kind = "panic" ->
                            /\ Panic(r.err)
                            /\ UNCHANGED <<Define, ki>>
    /\ UNCHANGED <<defineNil, keys>>
    /\ UNCHANGED scriptVars
    /\ UNCHANGED findVars
    /\ UNCHANGED loopVars

\* SetupArgs returns nil after any pass of its loop.
SetupDoneEarly ==
    /\ pc = "resolve"
    /\ pc' = "loop"
    /\ idx' = 1
    /\ Running
    /\ UNCHANGED <<Define, defineNil, action, name, argv, consumer, installed, executed>>
    /\ UNCHANGED scriptVars
    /\ UNCHANGED findVars
    /\ UNCHANGED setupVars

\* SetupArgs returns nil, lines 335 and 368-372.
SetupDone ==
    /\ pc = "resolve"
    /\ ki > Len(keys)
    /\ pc' = "loop"
    /\ idx' = 1
    /\ Running
    /\ UNCHANGED <<Define, defineNil, action, name, argv, consumer, installed, executed>>
    /\ UNCHANGED scriptVars
    /\ UNCHANGED findVars
    /\ UNCHANGED setupVars


\* ------------------------------------------------------------------------
\* runScript: the loop over script.Actions.
\* ------------------------------------------------------------------------

\* The subcommands of `issue` in the command tree.
sEdit == <<"e", "d", "i", "t">>

IssueCommands == {sCreate, sClone, sEdit}

\* root.Find([]string{"issue", name}): the subcommand when it exists;
\* otherwise cobra either reports an error or hands back the deepest
\* command it matched, the parent `issue`.
Find(nm) == IF nm \in IssueCommands THEN {"found"} ELSE {"error", "parent"}

\* The keys a create or clone can report through the sink.
IssueKeys == {<<"P", "-", "7">>, <<"P", "-", "8">>}

\* Every action captures a key.
CapturesKeyAlways(nm) == TRUE

\* name == "create" || name == "clone" (lines 395-403 and 466).
CapturesKey(nm) == nm = sCreate \/ nm = sClone

\* The calls of consumer.Consume one execution can make: none unless the
\* callback was installed on the command that runs.
SinkCalls(nm, inst) ==
    IF nm \in inst THEN {<<>>} \cup {<<k>> : k \in IssueKeys} ELSE {<<>>}

\* The error of root.ExecuteC is dropped.
AfterExecuteIgnoringError(e) == "capture"

\* Where the run goes after root.ExecuteC returned e (lines 463-465).
AfterExecute(e) == IF e /= NoErr THEN "failed" ELSE "capture"

\* The loop is over: return nil (line 470).
LoopEnd ==
    /\ pc = "loop"
    /\ idx > Len(Actions)
    /\ pc' = "done"
    /\ exitCode' = ExitIfError(NoErr)
    /\ UNCHANGED <<Define, defineNil, err>>
    /\ UNCHANGED scriptVars
    /\ UNCHANGED findVars
    /\ UNCHANGED setupVars
    /\ UNCHANGED loopVars

\* Lines 374-387: the checks of the action property and the interpolation.
Interpolate ==
    /\ pc = "loop"
    /\ idx <= Len(Actions)
    /\ LET raw == Actions[idx]
       IN  IF kAction \notin DOMAIN raw.m
           THEN ReturnErr(ErrNoAction) /\ UNCHANGED <<action, name>>
           ELSE IF raw.m[kAction].t /= "string"
           THEN ReturnErr(ErrInvalidAction) /\ UNCHANGED <<action, name>>
           ELSE \E r \in interpolateVars(raw, Define) :
                   IF r.ok
                   THEN /\ action' = r.val
                        /\ name' = raw.m[kAction].s
                        /\ pc' = "find"
                        /\ Running
                   ELSE /\ ReturnErr(r.err)
                        /\ UNCHANGED <<action, name>>
    /\ UNCHANGED <<Define, defineNil, idx, argv, consumer, installed, executed>>
    /\ UNCHANGED scriptVars
    /\ UNCHANGED findVars
    /\ UNCHANGED setupVars

\* Lines 389-407: the fresh consumer, the lookup of the subcommand, the
\* callback and --no-input.
FindSubCmd ==
    /\ pc = "find"
    /\ consumer' = <<>>
    /\ \E found \in Find(name), hasNoInput \in BOOLEAN :
          IF found = "error"
          THEN /\ ReturnErr(ErrFind)
               /\ UNCHANGED <<argv, installed>>
          ELSE /\ installed' = IF CapturesKey(name) THEN installed \cup {name}
                               ELSE installed
               /\ argv' = <<sIssue, name>>
                            \o (IF noInput /\ hasNoInput THEN <<sNoInput>> ELSE <<>>)
               /\ pc' = "translate"
               /\ Running
    /\ UNCHANGED <<Define, defineNil, idx, action, name, executed>>
    /\ UNCHANGED scriptVars
    /\ UNCHANGED findVars
    /\ UNCHANGED setupVars

\* Lines 408-459: the argument vector.
TranslateAction ==
    /\ pc = "translate"
    /\ IF TranslateFails(action)
       THEN ReturnErr(ErrCustomNotMap) /\ UNCHANGED argv
       ELSE /\ \E a \in Translate(action, argv) : argv' = a
            /\ pc' = "execute"
            /\ Running
    /\ UNCHANGED <<Define, defineNil, idx, action, name, consumer, installed, executed>>
    /\ UNCHANGED scriptVars
    /\ UNCHANGED findVars
    /\ UNCHANGED setupVars

\* Lines 460-465: root.SetArgs(args); root.ExecuteC().
Execute ==
    /\ pc = "execute"
    /\ \E e \in {NoErr, ErrExecute}, calls \in SinkCalls(name, installed) :
          /\ consumer' = IF calls = <<>> THEN consumer ELSE calls[Len(calls)]
          /\ executed' = Append(executed,
                 [idx |-> idx, name |-> name, ok |-> e = NoErr, calls |-> calls])
          /\ IF AfterExecute(e) = "failed"
             THEN ReturnErr(e)
             ELSE pc' = AfterExecute(e) /\ Running
    /\ UNCHANGED <<Define, defineNil, idx, action, name, argv, installed>>
    /\ UNCHANGED scriptVars
    /\ UNCHANGED findVars
    /\ UNCHANGED setupVars

\* Lines 466-469: script.Define["issue_key"] = consumer.issueKey, which
\* panics on a nil map, and the end of the pass, where the variables
\* declared in the body of the loop go out of scope.
Capture ==
    /\ pc = "capture"
    /\ IF CapturesKey(name) /\ defineNil
       THEN /\ Panic("assignment to entry in nil map")
            /\ UNCHANGED <<Define, idx, action, name, argv, consumer>>
       ELSE /\ Define' = IF CapturesKey(name) THEN MapSet(Define, kIssueKey, consumer)
                         ELSE Define
            /\ idx' = idx + 1
            /\ action' = Map(NoMap)
            /\ name' = <<>>
            /\ argv' = <<>>
            /\ consumer' = <<>>
            /\ pc' = "loop"
            /\ Running
    /\ UNCHANGED <<defineNil, installed, executed>>
    /\ UNCHANGED scriptVars
    /\ UNCHANGED findVars
    /\ UNCHANGED setupVars

\* ------------------------------------------------------------------------
\* The scripts and command lines of the model.
\* ------------------------------------------------------------------------

\* The command-line arguments: the first n of w, x, y, z.
ArgWords == <<(<<"w">>), (<<"x">>), (<<"y">>), (<<"z">>)>>

ArgLists == {SubSeq(ArgWords, 1, n) : n \in 0..MaxArgs}

\* All sequences of at most n elements of S.
SeqsUpTo(S, n) == UNION {[1..k -> S] : k \in 0..n}

vN == <<"n">>

vU == <<"u">>

ActionPool ==
    { \* scenario A: a create with a reference to a declared variable
      Map(MapOf({<<kAction, Str(sCreate)>>,
                 <<(<<"s">>), Str(<<"B", " ", "$", "n">>)>>})),
      \* scenarios B and D: a reference to issue_key and a repeated flag
      Map(MapOf({<<kAction, Str(sEdit)>>,
                 <<kArgs, Str(<<"$">> \o kIssueKey)>>,
                 <<(<<"l">>), List(<<Str(<<"a">>), Str(<<"b">>)>>)>>})),
      \* scenario C: a clone with a nested custom field and a plain one
      Map(MapOf({<<kAction, Str(sClone)>>,
                 <<kArgs, List(<<Str(<<"S">>), Str(<<"c">>)>>)>>,
                 <<kCustom, Map(MapOf({<<(<<"r">>), Map(MapOf({<<(<<"l">>), Str(<<"h">>)>>}))>>,
                                       <<(<<"p">>), Str(<<"1">>)>>}))>>})),
      \* custom is not a map, on a command whose Run is replaced
      Map(MapOf({<<kAction, Str(sCreate)>>, <<kCustom, Str(<<"x">>)>>})),
      \* an unsupported leaf next to an undefined variable
      Map(MapOf({<<kAction, Str(sEdit)>>,
                 <<(<<"l">>), List(<<>>)>>,
                 <<(<<"x">>), Other("int")>>,
                 <<(<<"y">>), Str(<<"$", "z", "z">>)>>})),
      \* a number among the positional arguments
      Map(MapOf({<<kAction, Str(sEdit)>>,
                 <<kArgs, List(<<Str(<<"S">>), Other("int")>>)>>})),
      \* no action property, and one that is not a string
      Map(MapOf({<<(<<"s">>), Str(<<"t">>)>>})),
      Map(MapOf({<<kAction, Other("int")>>})),
      \* a subcommand the tree does not have, with an empty repeated flag
      Map(MapOf({<<kAction, Str(<<"r", "m">>)>>, <<(<<"l">>), List(<<>>)>>}))
    }

DefinePool ==
    { MapOf({}),
      MapOf({<<vN, <<"~", "1">> >>}),
      MapOf({<<vN, <<"~", "x">> >>}),
      MapOf({<<vN, <<"k">> >>, <<vU, <<"~">> \o sChooseUser>>}) }

\* The state once the script file is decoded (line 355): a script without a
\* define section leaves script.Define nil.
InitWith(defines, scripts, arglists) ==
    /\ declared \in defines
    /\ Define = declared
    /\ defineNil \in (IF declared = MapOf({}) THEN BOOLEAN ELSE {FALSE})
    /\ Actions \in scripts
    /\ scriptArgs \in arglists
    /\ noInput \in BOOLEAN
    /\ pc = "SetupArgs"
    /\ keys = <<>>
    /\ ki = 0
    /\ idx = 0
    /\ action = Map(NoMap)
    /\ name = <<>>
    /\ argv = <<>>
    /\ consumer = <<>>
    /\ installed = {}
    /\ err = NoErr
    /\ exitCode = -1
    /\ executed = <<>>
    /\ prompts = <<>>
    /\ FindIdle

\* Whole runs: the define sections above with no argument or with one.
Init == InitWith(DefinePool, SeqsUpTo(ActionPool, MaxActions), {<<>>, SubSeq(ArgWords, 1, 1)})

Next ==
    \/ SetupSort
    \/ SetupKey
    \/ SetupDone
    \/ LoopEnd
    \/ Interpolate
    \/ FindSubCmd
    \/ TranslateAction
    \/ Execute
    \/ Capture

Spec == Init /\ [][Next]_vars


\* ------------------------------------------------------------------------
\* SetupArgs on its own, over more define sections: every kind of
\* directive, well formed or not, for the variables n and u.
\* ------------------------------------------------------------------------
DirectivePool ==
    { <<"~", "1">>, <<"~", "2">>, <<"~", "3">>, <<"~", "0">>, <<"~", "-", "1">>,
      <<"~", "+", "2">>, <<"~", "0", "3">>, <<"~", "x">>, <<"~">>,
      <<"~", "~", "f">>, <<"~", "~">>, <<"~", "~", "~", "1">>,
      <<"~">> \o sMe, <<"~">> \o sChooseUser, <<"k">>, <<>> }

SetupDefines ==
    {MapOf({})}
    \cup {MapOf({<<vN, a>>}) : a \in DirectivePool}
    \cup {MapOf({<<vN, a>>, <<vU, b>>}) : a \in DirectivePool, b \in DirectivePool}

InitSetup == InitWith(SetupDefines, {<<>>}, ArgLists)

NextSetup ==
    \/ SetupSort
    \/ SetupKey
    \/ SetupDone

SpecSetup == InitSetup /\ [][NextSetup]_vars

\* ------------------------------------------------------------------------
\* The interpolation step on its own, over all short strings and over
\* nested values, from the state SetupArgs leaves for a define section of
\* literals.
\* ------------------------------------------------------------------------
InterpAlphabet == {"$", "a", "b", "-"}

InterpStrings == SeqsUpTo(InterpAlphabet, MaxLen)

\* The names a reference of an InterpString can have.
InterpNames == SeqsUpTo({"a", "b"}, MaxLen - 1) \ {<<>>}

InterpDefines ==
    { [w \in InterpNames |-> <<"$">> \o w \o <<"-">>],
      [w \in InterpNames |-> <<"b">> \o w],
      MapOf({<<(<<"a">>), <<>> >>}) }

Leaves == {Str(<<"$", "a">>), Str(<<"c">>), Other("bool")}

kRef == <<"$", "a">>

kK == <<"k">>

Nested1 ==
    {List(xs) : xs \in SeqsUpTo(Leaves, 2)}
    \cup {Map(m) : m \in UNION {[ks -> Leaves] : ks \in SUBSET {kK, kRef}}}

Nested2 ==
    {List(<<v, Str(<<"$", "b">>)>>) : v \in Nested1}
    \cup {Map(MapOf({<<kK, v>>, <<kRef, Str(<<"-">>)>>})) : v \in Nested1}

InterpValues == {Str(x) : x \in InterpStrings} \cup Nested1 \cup Nested2

kX == <<"x">>

InitInterp ==
    /\ declared \in InterpDefines
    /\ keys \in SortedByValue(declared)
    /\ Define = declared
    /\ defineNil = FALSE
    /\ \E v \in InterpValues :
          Actions = <<Map(MapOf({<<kAction, Str(sEdit)>>, <<kX, v>>}))>>
    /\ scriptArgs = <<>>
    /\ noInput = FALSE
    /\ pc = "loop"
    /\ ki = Len(keys) + 1
    /\ idx = 1
    /\ action = Map(NoMap)
    /\ name = <<>>
    /\ argv = <<>>
    /\ consumer = <<>>
    /\ installed = {}
    /\ err = NoErr
    /\ exitCode = -1
    /\ executed = <<>>
    /\ prompts = <<>>
    /\ FindIdle

NextInterp == Interpolate

SpecInterp == InitInterp /\ [][NextInterp]_vars

\* ------------------------------------------------------------------------
\* TeamCity.FindArtifact (src/internal/teamcity/teamcity.go): the search
\* for the artifact named filename in the artifacts of build 7, one action
\* per pass of its loop.
\* ------------------------------------------------------------------------
StatusOK == 200

StatusNotFound == 404

ErrNoArtifacts == "build %v has no artifacts"

ErrReadingArtifacts == "error reading artifacts: %v"

ErrNoSuchArtifact == "no such artifact %v"

ErrTransport == "http.NewRequest, client.Do or io.ReadAll error"

ErrUnmarshal == "json.Unmarshal error"

filename == <<"f">>

\* fmt.Sprintf("/app/rest/builds/id:%d/artifacts/metadata/", buildId)
metadataPrefix ==
    <<"/", "a", "p", "p", "/", "r", "e", "s", "t", "/", "b", "u", "i", "l", "d", "s",
      "/", "i", "d", ":", "7", "/", "a", "r", "t", "i", "f", "a", "c", "t", "s",
      "/", "m", "e", "t", "a", "d", "a", "t", "a", "/">>

\* The server: the path of an entry of a directory, and the entry as the
\* listing of the directory gives it.
ChildPath(parent, nm) == IF parent = <<>> THEN nm ELSE parent \o <<"/">> \o nm

File(parent, nm) == [Name |-> nm, Href |-> metadataPrefix \o ChildPath(parent, nm)]

\* The answer to GET .../artifacts[/children/<path>]: the listing of a
\* directory, and 404 for anything else (a file, a missing path, a build
\* without artifacts), with a body that is a JSON object or is not.
Response(path) ==
    IF path \in DOMAIN tree
    THEN [status |-> StatusOK, json |-> TRUE,
          files |-> [i \in 1..Len(tree[path]) |-> File(path, tree[path][i])]]
    ELSE [status |-> StatusNotFound, json |-> jsonErrors, files |-> <<>>]

\* What a request can come back with: the answer above, any other status,
\* or no response at all (status 0 stands for the error of lines 33-49).
Responses(path) ==
    {Response(path),
     [status |-> 500, json |-> jsonErrors, files |-> <<>>],
     [status |-> 0, json |-> FALSE, files |-> <<>>]}

\* json.Unmarshal(buf, &arts): an error unless the body is JSON; a JSON
\* error body has no "file" member and leaves arts.Files empty.
Unmarshal(resp) == [ok |-> resp.json, files |-> resp.files]

\* The loop over arts.Files (lines 64-72): href[len(metadataPrefix):] of
\* each file, returned for the first file named filename and queued
\* otherwise.
RECURSIVE RangeFiles(_, _)
RangeFiles(files, q) ==
    IF files = <<>> THEN [ret |-> FALSE, path |-> <<>>, queue |-> q]
    ELSE LET file == Head(files)
             path == Slice(file.Href, Len(metadataPrefix), Len(file.Href))
         IN  IF file.Name = filename
             THEN [ret |-> TRUE, path |-> path, queue |-> q]
             ELSE RangeFiles(Tail(files), Append(q, path))

FindReturn(path, e) ==
    /\ fpc' = (IF e = NoErr THEN "returned" ELSE "failed")
    /\ foundPath' = path
    /\ findErr' = e

\* One pass of the loop of lines 26-76, and line 78 after the break.
FindStep ==
    /\ fpc = "loop"
    /\ IF queue = <<>>
       THEN /\ fpc' = "panic"                       \* queue[0] of an empty slice
            /\ findErr' = "index out of range"
            /\ UNCHANGED <<queue, foundPath, requested>>
       ELSE LET parentPath == Head(queue)
            IN  \E resp \in Responses(parentPath) :
                  /\ requested' = Append(requested, [path |-> parentPath, status |-> resp.status])
                  /\ IF resp.status = 0
                     THEN FindReturn(<<>>, ErrTransport) /\ queue' = Tail(queue)
                     ELSE IF resp.status = StatusNotFound /\ parentPath = <<>>
                     THEN FindReturn(<<>>, ErrNoArtifacts) /\ queue' = Tail(queue)
                     ELSE IF resp.status /= StatusNotFound /\ resp.status /= StatusOK
                     THEN FindReturn(<<>>, ErrReadingArtifacts) /\ queue' = Tail(queue)
                     ELSE LET arts == Unmarshal(resp)
                              r == RangeFiles(arts.files, Tail(queue))
                          IN  IF ~arts.ok
                              THEN FindReturn(<<>>, ErrUnmarshal) /\ queue' = Tail(queue)
                              ELSE /\ queue' = r.queue
                                   /\ IF r.ret THEN FindReturn(r.path, NoErr)
                                      ELSE IF Len(r.queue) = 0
                                      THEN FindReturn(<<>>, ErrNoSuchArtifact)
                                      ELSE UNCHANGED <<fpc, foundPath, findErr>>
    /\ UNCHANGED <<tree, jsonErrors>>
    /\ UNCHANGED runVars

\* The builds of the model: no artifacts at all, or a root directory of at
\* most MaxEntries entries named a, b or f, each entry other than f a file
\* or a directory of files.
EntryNames == {<<"a">>, <<"b">>, <<"f">>}

Listings ==
    {l \in SeqsUpTo(EntryNames, MaxEntries) : \A i, j \in DOMAIN l : i /= j => l[i] /= l[j]}

Kinds == {[dir |-> FALSE, list |-> <<>>]} \cup {[dir |-> TRUE, list |-> l] : l \in Listings}

Descended(l) == {l[i] : i \in DOMAIN l} \ {filename}

TreeOf(l, sub) ==
    [p \in {<<>>} \cup {n \in Descended(l) : sub[n].dir} |->
        IF p = <<>> THEN l ELSE sub[p].list]

TreePool ==
    {NoTree} \cup UNION {{TreeOf(l, sub) : sub \in [Descended(l) -> Kinds]} : l \in Listings}

\* No script is run while FindArtifact is.
RunIdle ==
    /\ declared = MapOf({})
    /\ Define = declared
    /\ defineNil = FALSE
    /\ Actions = <<>>
    /\ scriptArgs = <<>>
    /\ noInput = FALSE
    /\ pc = "idle"
    /\ keys = <<>>
    /\ ki = 0
    /\ idx = 0
    /\ action = Map(NoMap)
    /\ name = <<>>
    /\ argv = <<>>
    /\ consumer = <<>>
    /\ installed = {}
    /\ err = NoErr
    /\ exitCode = -1
    /\ executed = <<>>
    /\ prompts = <<>>

\* Line 24: queue := []string{""}.
InitFind ==
    /\ RunIdle
    /\ tree \in TreePool
    /\ jsonErrors \in BOOLEAN
    /\ queue = <<(<<>>)>>
    /\ fpc = "loop"
    /\ foundPath = <<>>
    /\ findErr = NoErr
    /\ requested = <<>>

NextFind == FindStep

SpecFind == InitFind /\ [][NextFind]_vars


\* ========================================================================
\* Properties.
\* ========================================================================

\* What the specification says a string interpolates to, position by
\* position (positions are 1-based here): a reference starts at every `$`
\* that a word character follows and runs to the end of the word.
RefStart(s, i) == s[i] = "$" /\ i < Len(s) /\ s[i + 1] \in WordChars

RefEnd(s, i) ==
    CHOOSE j \in (i + 1)..Len(s) :
        /\ \A k \in (i + 1)..j : s[k] \in WordChars
        /\ j = Len(s) \/ s[j + 1] \notin WordChars

RefName(s, i) == SubSeq(s, i + 1, RefEnd(s, i))

RefNames(s) == {RefName(s, i) : i \in {j \in 1..Len(s) : RefStart(s, j)}}

InsideRef(s, p) ==
    \E i \in 1..(p - 1) : RefStart(s, i) /\ \A k \in (i + 1)..p : s[k] \in WordChars

Piece(s, D, p) ==
    IF RefStart(s, p) THEN D[RefName(s, p)]
    ELSE IF InsideRef(s, p) THEN <<>>
    ELSE <<s[p]>>

RECURSIVE PiecesFrom(_, _, _)
PiecesFrom(s, D, p) ==
    IF p > Len(s) THEN <<>> ELSE Piece(s, D, p) \o PiecesFrom(s, D, p + 1)

Expand(s, D) == PiecesFrom(s, D, 1)

\* The same over a nested value: leaf by leaf, keys and shape untouched.
RECURSIVE ExpandValue(_, _)
ExpandValue(v, D) ==
    CASE v.t = "string" -> Str(Expand(v.s, D))
      [] v.t = "slice" -> List([i \in 1..Len(v.xs) |-> ExpandValue(v.xs[i], D)])
      [] v.t = "map" -> Map([k \in DOMAIN v.m |-> ExpandValue(v.m[k], D)])
      [] OTHER -> v

\* The value holds a reference to a name that D lacks.
RECURSIVE HasUndefinedRef(_, _)
HasUndefinedRef(v, D) ==
    CASE v.t = "string" -> \E nm \in RefNames(v.s) : nm \notin DOMAIN D
      [] v.t = "slice" -> \E i \in 1..Len(v.xs) : HasUndefinedRef(v.xs[i], D)
      [] v.t = "map" -> \E k \in DOMAIN v.m : HasUndefinedRef(v.m[k], D)
      [] OTHER -> FALSE

\* The value holds a leaf that is neither a string, a sequence nor a mapping.
RECURSIVE HasUnsupportedLeaf(_)
HasUnsupportedLeaf(v) ==
    CASE v.t = "string" -> FALSE
      [] v.t = "slice" -> \E i \in 1..Len(v.xs) : HasUnsupportedLeaf(v.xs[i])
      [] v.t = "map" -> \E k \in DOMAIN v.m : HasUnsupportedLeaf(v.m[k])
      [] OTHER -> TRUE

Last(q) == q[Len(q)]

\* The run is inside the pass of the loop for action idx, after its
\* interpolation succeeded.
Interpolated == idx \in DOMAIN Actions /\ pc \in {"find", "translate", "execute", "capture"}

\* The interpolation of action idx was attempted (it succeeded or failed).
InterpolationTried ==
    /\ idx \in DOMAIN Actions
    /\ pc \notin {"loop"}
    /\ ~(pc = "failed" /\ err \in {ErrNoAction, ErrInvalidAction})

\* The successful create and clone executions so far.
Captures == {j \in DOMAIN executed : executed[j].ok /\ CapturesKey(executed[j].name)}

LastCapture == executed[CHOOSE j \in Captures : \A i \in Captures : i <= j]

\* C1: once a create or clone was dispatched successfully and reported key
\* K through the sink, Define["issue_key"] is K from the step after that
\* dispatch until the next create/clone, and every action interpolated in
\* between has its references, `$issue_key` among them, replaced from that
\* Define; this for every script, also one without a define section.
C1_IssueKeyReachesLaterActions ==
    (Captures /= {} /\ LastCapture.calls /= <<>>) =>
        \/ pc = "capture" /\ idx = LastCapture.idx
        \/ /\ kIssueKey \in DOMAIN Define
           /\ Define[kIssueKey] = Last(LastCapture.calls)
           /\ Interpolated => action = ExpandValue(Actions[idx], Define)

\* C2: after SetupArgs, a step never removes a key of Define, never changes
\* the value of a key other than issue_key, and changes Define only in the
\* step that follows a successful dispatch of a create or clone.
C2_DefineOnlyExtended ==
    [][pc \notin {"SetupArgs", "resolve"} =>
          /\ DOMAIN Define \subseteq DOMAIN Define'
          /\ \A k \in DOMAIN Define \ {kIssueKey} : Define'[k] = Define[k]
          /\ Define' /= Define =>
                /\ pc = "capture"
                /\ name \in {sCreate, sClone}
                /\ executed /= <<>>
                /\ Last(executed).ok
                /\ Last(executed).idx = idx
                /\ Last(executed).name = name
                /\ DOMAIN Define' = DOMAIN Define \cup {kIssueKey}]_vars

\* C2 witness: a captured key was added to a Define that did not declare it.
C2_Witness ==
    /\ pc = "loop"
    /\ kIssueKey \in DOMAIN Define
    /\ kIssueKey \notin DOMAIN declared
    /\ Define[kIssueKey] \in IssueKeys
    /\ DOMAIN declared /= {}

\* C3 as stated: an action with a reference to a name Define lacks when it
\* is interpolated fails with the undefined-variable error, is not
\* dispatched and is the last action of the run.
C3_UndefinedAlwaysUndefinedError ==
    (InterpolationTried /\ HasUndefinedRef(Actions[idx], Define)) =>
        /\ pc = "failed"
        /\ err = ErrUnknownVariable
        /\ \A j \in DOMAIN executed : executed[j].idx < idx

\* C3 amended: such an action fails at its interpolation, with the
\* undefined-variable error or, when the record also holds a leaf of an
\* unsupported type, possibly with the unsupported-type error instead; it is
\* not dispatched and is the last action of the run.
C3_UndefinedFailsInterpolation ==
    (InterpolationTried /\ HasUndefinedRef(Actions[idx], Define)) =>
        /\ pc = "failed"
        /\ err \in {ErrUnknownVariable, ErrUnexpectedType}
        /\ err = ErrUnexpectedType => HasUnsupportedLeaf(Actions[idx])
        /\ \A j \in DOMAIN executed : executed[j].idx < idx

\* C3 witness: the second action failed on an undefined variable after the
\* first was dispatched.
C3_Witness ==
    /\ pc = "failed"
    /\ err = ErrUnknownVariable
    /\ idx = 2
    /\ HasUndefinedRef(Actions[idx], Define)
    /\ Len(executed) = 1


\* C4: a failed dispatch of action idx ends the run in Failed in that very
\* step, with Define and the earlier executions as they were, and nothing
\* happens after Failed: no later action is interpolated, translated or
\* dispatched and nothing is rolled back.
C4_DispatchFailureAborts ==
    [][/\ pc /= "failed"
       /\ (Len(executed') > Len(executed) /\ ~Last(executed').ok) =>
             /\ pc' = "failed"
             /\ exitCode' /= 0
       /\ (pc \in {"find", "execute"} /\ pc' = "failed") =>
             /\ Define' = Define
             /\ idx' = idx
             /\ SubSeq(executed', 1, Len(executed)) = executed
       /\ \A j \in DOMAIN executed :
             /\ executed[j].ok
             /\ executed'[j] = executed[j]]_vars

\* C4 witness: the first of two actions reported a key and then failed; the
\* second never ran and Define holds no issue_key.
C4_Witness ==
    /\ pc = "failed"
    /\ err = ErrExecute
    /\ idx = 1
    /\ Len(Actions) = 2
    /\ Len(executed) = 1
    /\ executed[1].calls /= <<>>
    /\ kIssueKey \notin DOMAIN Define

\* The position of key k in the order SetupArgs visits the keys.
PosOf(k) == CHOOSE i \in DOMAIN keys : keys[i] = k

\* SetupArgs is past the sort and has finished the pass for key k.
Resolved(k) == keys /= <<>> /\ k \in DOMAIN declared /\ PosOf(k) < ki

\* SetupArgs is in, or has stopped in, the pass for key k.
AtKey(k) == keys /= <<>> /\ k \in DOMAIN declared /\ PosOf(k) = ki

\* C5: a variable declared as `~~` followed by T resolves to `~` followed
\* by T: exactly one sentinel is stripped.
C5_EscapedLiteralKeepsOneSentinel ==
    \A k \in DOMAIN declared :
        (Resolved(k) /\ Len(declared[k]) >= 2 /\ declared[k][1] = "~" /\ declared[k][2] = "~")
            => Define[k] = SubSeq(declared[k], 2, Len(declared[k]))

\* The number a string of decimal digits denotes.
DigitSeq == <<"0", "1", "2", "3", "4", "5", "6", "7", "8", "9">>

RECURSIVE NumberOf(_)
NumberOf(ds) ==
    IF ds = <<>> THEN 0
    ELSE 10 * NumberOf(SubSeq(ds, 1, Len(ds) - 1))
         + (CHOOSE d \in 0..9 : DigitSeq[d + 1] = ds[Len(ds)])

\* The variable k is declared as `~N` for a positive integer N.
IsPositional(k) ==
    /\ Len(declared[k]) >= 2
    /\ declared[k][1] = "~"
    /\ \A i \in 2..Len(declared[k]) : declared[k][i] \in Digits
    /\ NumberOf(Tail(declared[k])) >= 1

\* C6: a variable declared as `~N`, N a positive integer, resolves to the
\* N-th argument (counted from 1) when at least N arguments were given;
\* otherwise resolution stops at it with the missing-argument error and the
\* variable keeps its declared value.
C6_PositionalArg ==
    \A k \in DOMAIN declared :
        IsPositional(k) =>
            LET N == NumberOf(Tail(declared[k]))
            IN  /\ Resolved(k) => (N <= Len(scriptArgs) /\ Define[k] = scriptArgs[N])
                /\ AtKey(k) =>
                      /\ pc \in {"resolve", "failed"}
                      /\ Define[k] = declared[k]
                      /\ pc = "failed" =>
                            (N > Len(scriptArgs) /\ err = ErrMissingArg /\ exitCode /= 0)

\* C6 witness: n, declared ~1, took the first argument and u, declared with
\* a larger index, stopped the resolution.
C6_Witness ==
    /\ pc = "failed"
    /\ err = ErrMissingArg
    /\ DOMAIN declared = {vN, vU}
    /\ declared[vN] = <<"~", "1">>
    /\ Len(scriptArgs) >= 1
    /\ Define[vN] = scriptArgs[1]
    /\ IsPositional(vU)
    /\ AtKey(vU)
    /\ Define[vU] = declared[vU]

\* C7: the process exits with status zero only when the run reached Done,
\* every action having been executed without error.
C7_ExitZeroOnlyWhenDone ==
    exitCode = 0 =>
        /\ pc = "done"
        /\ idx > Len(Actions)
        /\ Len(executed) = Len(Actions)
        /\ \A j \in DOMAIN executed : executed[j].ok

\* The string given to the interpolation step of SpecInterp, if it is one.
InterpInput == Actions[1].m[kX]

\* C8: on a string whose references are all defined, interpolateVars
\* succeeds and returns the string with every maximal `$word` replaced by
\* the value of word, left to right in one pass, the rest copied; a string
\* without `$` comes back unchanged.
C8_StringInterpolation ==
    (pc /= "loop" /\ InterpInput.t = "string" /\ RefNames(InterpInput.s) \subseteq DOMAIN Define) =>
        /\ pc = "find"
        /\ action.m[kX] = Str(Expand(InterpInput.s, Define))
        /\ (\A i \in DOMAIN InterpInput.s : InterpInput.s[i] /= "$") =>
              action.m[kX] = InterpInput

\* C8 witness: two references were replaced in one string by values that
\* themselves look like references.
C8_Witness ==
    /\ pc = "find"
    /\ InterpInput = Str(<<"$", "a", "$", "b">>)
    /\ action.m[kX] = Str(<<"$", "a", "-", "$", "b", "-">>)

\* Two values have the same shape at every depth.
RECURSIVE SameShape(_, _)
SameShape(a, b) ==
    /\ a.t = b.t
    /\ a.t = "slice" =>
          /\ Len(a.xs) = Len(b.xs)
          /\ \A i \in 1..Len(a.xs) : SameShape(a.xs[i], b.xs[i])
    /\ a.t = "map" =>
          /\ DOMAIN a.m = DOMAIN b.m
          /\ \A k \in DOMAIN a.m : SameShape(a.m[k], b.m[k])

\* C9: a successful interpolation returns a value of the shape of its
\* input at every depth, each leaf in its place and the keys as they were,
\* and leaves the input and Define as they were.
C9_ShapePreserved ==
    /\ [](pc = "find" =>
            /\ SameShape(Actions[1], action)
            /\ action = ExpandValue(Actions[1], Define)
            /\ Define = declared)
    /\ [][Actions' = Actions /\ Define' = Define]_vars

\* C9 witness: a map holding a two-element sequence and a key that looks
\* like a reference was interpolated.
C9_Witness ==
    /\ pc = "find"
    /\ InterpInput.t = "map"
    /\ DOMAIN InterpInput.m = {kK, kRef}
    /\ InterpInput.m[kK].t = "slice"
    /\ Len(InterpInput.m[kK].xs) = 2
    /\ DOMAIN action.m[kX].m = {kK, kRef}
    /\ Len(action.m[kX].m[kK].xs) = 2
    /\ action /= Actions[1]

\* The positions of the argument vector that hold the token tok.
Occurrences(tok) == {p \in DOMAIN argv : argv[p] = tok}

\* The pairs --k e1 ... --k en stand next to each other from position p on.
PairsAt(k, es, p) ==
    /\ p + 2 * Len(es) - 1 <= Len(argv)
    /\ \A i \in 1..Len(es) :
          /\ argv[p + 2 * (i - 1)] = <<"-", "-">> \o k
          /\ argv[p + 2 * (i - 1) + 1] = es[i]

\* The number of arguments a field is to contribute.
Contribution(k, v) ==
    IF k = kAction THEN 0
    ELSE IF k = kArgs THEN (IF v.t = "slice" THEN Len(v.xs) ELSE 1)
    ELSE IF k = kCustom THEN 2 * Cardinality(DOMAIN v.m)
    ELSE IF v.t = "slice" THEN 2 * Len(v.xs) ELSE 2

RECURSIVE SumOver(_, _)
SumOver(S, m) ==
    IF S = {} THEN 0
    ELSE LET k == CHOOSE x \in S : TRUE
         IN  Contribution(k, m[k]) + SumOver(S \ {k}, m)

\* C10: in the argument vector built for an action, a field k other than
\* action, args and custom with a sequence of n strings stands as exactly n
\* adjacent pairs --k ei in the order of the sequence, one with a string v
\* as exactly one pair --k v, and the action field adds nothing.
C10_FlagEncoding ==
    (pc \in {"execute", "capture"}) =>
        /\ \A k \in DOMAIN action.m \ {kAction, kArgs, kCustom} :
              LET v == action.m[k]
                  es == IF v.t = "slice" THEN [i \in 1..Len(v.xs) |-> v.xs[i].s]
                        ELSE <<v.s>>
              IN  (v.t = "string" \/ (v.t = "slice" /\ \A i \in 1..Len(v.xs) : v.xs[i].t = "string"))
                  => /\ Cardinality(Occurrences(<<"-", "-">> \o k)) = Len(es)
                     /\ \E p \in 1..(Len(argv) + 1) : PairsAt(k, es, p)
        /\ LET prefix == Len(argv) - SumOver(DOMAIN action.m, action.m)
           IN  /\ prefix \in {2, 3}
               /\ prefix = 3 => (noInput /\ argv[3] = sNoInput)
        /\ argv[1] = sIssue
        /\ argv[2] = name

\* C10 witness: the two labels of an edit stand as two pairs, in order.
C10_Witness ==
    /\ pc = "execute"
    /\ name = sEdit
    /\ action.m[<<"l">>] = List(<<Str(<<"a">>), Str(<<"b">>)>>)
    /\ \E p \in DOMAIN argv :
          SubSeq(argv, p, p + 3) = <<(<<"-", "-", "l">>), (<<"a">>), (<<"-", "-", "l">>), (<<"b">>)>>

\* The fields of the action being translated, as the script gives them
\* (interpolation keeps the type of every value).
CustomOf(act) == act.m[kCustom]

HasBadCustom(act) == kCustom \in DOMAIN act.m /\ CustomOf(act).t /= "map"

\* The token --custom and the value expected next to it for one entry.
CustomFlag == <<"-", "-", "c", "u", "s", "t", "o", "m">>

CustomValue(fname, fvalue) ==
    IF fvalue.t = "map"
    THEN <<"j", "s", "o", "n", ":">> \o fname \o <<"=">> \o JsonMarshal(fvalue)
    ELSE fname \o <<"=">> \o Sprint(fvalue)

\* C11: an action whose custom field is not a mapping fails in translation
\* and is never executed; otherwise the argument vector holds --custom as
\* many times as custom has entries, and for every entry (name, value) an
\* adjacent pair --custom X, with X = json:name=<compact JSON of value> for
\* a mapping and X = name=<value stringified> for anything else.
C11_CustomEncoding ==
    /\ \A j \in DOMAIN executed : ~HasBadCustom(Actions[executed[j].idx])
    /\ (pc = "failed" /\ err = ErrCustomNotMap) =>
          /\ HasBadCustom(action)
          /\ \A j \in DOMAIN executed : executed[j].idx < idx
    /\ (pc \in {"execute", "capture"}) =>
          /\ ~HasBadCustom(action)
          /\ kCustom \in DOMAIN action.m =>
                /\ Cardinality(Occurrences(CustomFlag)) = Cardinality(DOMAIN CustomOf(action).m)
                /\ \A fname \in DOMAIN CustomOf(action).m :
                      Cardinality({p \in Occurrences(CustomFlag) :
                          /\ p < Len(argv)
                          /\ argv[p + 1] = CustomValue(fname, CustomOf(action).m[fname])}) = 1
          /\ kCustom \notin DOMAIN action.m => Occurrences(CustomFlag) = {}

\* C11 witness: a clone is about to run with its two custom entries
\* encoded, the nested one as JSON.
C11_Witness ==
    /\ pc = "execute"
    /\ name = sClone
    /\ \E p, q \in 1..(Len(argv) - 1) :
          /\ argv[p] = CustomFlag
          /\ argv[p + 1] = <<"j", "s", "o", "n", ":", "r", "=",
                             "{", "\"", "l", "\"", ":", "\"", "h", "\"", "}">>
          /\ argv[q] = CustomFlag
          /\ argv[q + 1] = <<"p", "=", "1">>

\* An argument vector read as the invoked command reads it: a token that
\* starts with -- takes the next token as its value, any other token is a
\* positional argument.
IsFlag(tok) == Len(tok) >= 2 /\ tok[1] = "-" /\ tok[2] = "-"

RECURSIVE Scan(_, _)
Scan(v, p) ==
    IF p > Len(v) THEN [pairs |-> <<>>, pos |-> <<>>]
    ELSE IF IsFlag(v[p]) /\ p < Len(v)
         THEN LET r == Scan(v, p + 2)
              IN  [pairs |-> <<(<<v[p], v[p + 1]>>)>> \o r.pairs, pos |-> r.pos]
         ELSE LET r == Scan(v, p + 1)
              IN  [pairs |-> r.pairs, pos |-> <<v[p]>> \o r.pos]

Count(q, x) == Cardinality({i \in DOMAIN q : q[i] = x})

SameBag(q1, q2) ==
    /\ Len(q1) = Len(q2)
    /\ \A i \in DOMAIN q1 : Count(q1, q1[i]) = Count(q2, q1[i])

\* What the fields of an action are to give, field by field in the order
\* of their names: the flag/value pairs and the positional arguments.
PairsOfField(k, v) ==
    IF k = kCustom
    THEN LET ns == SortedKeys(DOMAIN v.m)
         IN  [i \in 1..Len(ns) |-> <<CustomFlag, CustomValue(ns[i], v.m[ns[i]])>>]
    ELSE IF v.t = "slice"
    THEN [i \in 1..Len(v.xs) |-> <<(<<"-", "-">> \o k), Sprint(v.xs[i])>>]
    ELSE <<(<<(<<"-", "-">> \o k), Sprint(v)>>)>>

ExpectedPairs(act) ==
    LET ks == SortedKeys(DOMAIN act.m \ {kAction, kArgs})
    IN  Concat([i \in 1..Len(ks) |-> PairsOfField(ks[i], act.m[ks[i]])])

ExpectedPositionals(act) ==
    IF kArgs \notin DOMAIN act.m THEN <<>>
    ELSE IF act.m[kArgs].t = "slice"
    THEN [i \in 1..Len(act.m[kArgs].xs) |-> Sprint(act.m[kArgs].xs[i])]
    ELSE <<Sprint(act.m[kArgs])>>

\* The part of vector v after its first n tokens.
After(v, n) == SubSeq(v, n + 1, Len(v))

\* C12: the argument vector built for an action extends the prefix
\* issue <name> [--no-input] that stood before the fields were ranged
\* over, and whatever the order of the fields and of the custom entries,
\* the rest reads as the same multiset of adjacent flag/value pairs and
\* the same positional arguments in the order of args: any vector another
\* order could have built agrees with it on all three, and no flag is cut
\* off from its value.
C12_OrderIndependent ==
    [][(pc = "translate" /\ pc' = "execute") =>
          LET n == Len(argv)
              mine == Scan(After(argv', n), 1)
          IN  /\ n \in {2, 3}
              /\ SubSeq(argv', 1, n) = argv
              /\ SubSeq(argv, 1, 2) = <<(<<"i", "s", "s", "u", "e">>), name>>
              /\ SameBag(mine.pairs, ExpectedPairs(action))
              /\ mine.pos = ExpectedPositionals(action)
              /\ \A other \in Translate(action, argv) :
                    LET theirs == Scan(After(other, n), 1)
                    IN  /\ SubSeq(other, 1, n) = argv
                        /\ SameBag(theirs.pairs, mine.pairs)
                        /\ theirs.pos = mine.pos]_vars

\* C12 witness: a clone whose fields came out in the order custom, args,
\* the entry p before the entry r.
C12_Witness ==
    /\ pc = "execute"
    /\ name = sClone
    /\ Len(argv) = 8
    /\ argv[3] = CustomFlag
    /\ argv[4] = <<"p", "=", "1">>
    /\ argv[5] = CustomFlag
    /\ argv[7] = <<"S">>
    /\ argv[8] = <<"c">>

\* C13 as stated: the subcommand is looked up and the capture callback
\* installed only once the argument vector is complete, so that an action
\* with a custom that is not a mapping fails with the translation error
\* before any lookup and with the command tree as it was: the callback is
\* installed on no command that was not executed.
C13_LookupAfterTranslation ==
    /\ (Interpolated /\ HasBadCustom(action)) => pc /= "translate"
    /\ (pc = "failed" /\ idx \in DOMAIN Actions /\ HasBadCustom(Actions[idx])
            /\ err \notin {ErrUnknownVariable, ErrUnexpectedType})
          => /\ err = ErrCustomNotMap
             /\ installed \subseteq {executed[j].name : j \in DOMAIN executed}

\* C13 amended: within an action the steps come in the order
\* interpolation, lookup of the subcommand with the installation of the
\* callback, translation, execution.  A failed translation therefore comes
\* after a successful lookup, leaves the callback installed on a create or
\* clone, and ends the run with the translation error before anything of
\* that action is executed.
C13_LookupBeforeTranslation ==
    [][/\ (pc = "loop" /\ pc' /= "loop") => pc' \in {"find", "failed", "done"}
       /\ pc = "find" => pc' \in {"translate", "failed"}
       /\ pc = "translate" => pc' \in {"execute", "failed"}
       /\ pc = "execute" => pc' \in {"capture", "failed"}
       /\ installed' /= installed =>
             (pc = "find" /\ pc' = "translate" /\ installed' = installed \cup {name})
       /\ argv' /= argv => pc \in {"find", "translate", "capture"}
       /\ Len(executed') > Len(executed) =>
             (pc = "execute" /\ ~HasBadCustom(action))
       /\ (pc = "translate" /\ HasBadCustom(action)) =>
             /\ pc' = "failed"
             /\ err' = ErrCustomNotMap
             /\ executed' = executed
             /\ installed' = installed
             /\ name \in {sCreate, sClone} => name \in installed
       /\ (pc = "translate" /\ pc' = "failed") => HasBadCustom(action)]_vars

\* C13 witness: a create with a custom that is not a mapping failed in
\* translation as the first action, the callback already installed on
\* create.
C13_Witness ==
    /\ pc = "failed"
    /\ err = ErrCustomNotMap
    /\ idx = 1
    /\ name = sCreate
    /\ installed = {sCreate}
    /\ executed = <<>>

\* The text after the sentinel of a directive.
Directive(k) == Tail(declared[k])

HasSentinel(k) == declared[k] /= <<>> /\ declared[k][1] = "~"

\* A string is a decimal integer, signed or not, and the integer it is.
IsInteger(r) ==
    LET ds == IF r /= <<>> /\ r[1] \in {"+", "-"} THEN Tail(r) ELSE r
    IN  ds /= <<>> /\ \A i \in DOMAIN ds : ds[i] \in Digits

IntegerOf(r) ==
    IF r[1] = "-" THEN 0 - NumberOf(Tail(r))
    ELSE IF r[1] = "+" THEN NumberOf(Tail(r))
    ELSE NumberOf(r)

\* The directive of k is none of choose_user, me, an escaped literal and a
\* positive integer.
IsUnknownDirective(k) ==
    /\ HasSentinel(k)
    /\ Directive(k) /= <<"c", "h", "o", "o", "s", "e", "_", "u", "s", "e", "r">>
    /\ Directive(k) /= <<"m", "e">>
    /\ ~(Directive(k) /= <<>> /\ Directive(k)[1] = "~")
    /\ ~(IsInteger(Directive(k)) /\ IntegerOf(Directive(k)) >= 1)

\* C14: the resolution of a directive ends with a value or with a returned
\* error, never with a crash; for a directive that is none of choose_user,
\* me, an escaped literal and a positive integer (the empty one, 0 and the
\* negative integers among them) it ends with the unknown-directive error,
\* the variable as declared and no action executed.
C14_UnknownDirectiveFails ==
    \A k \in DOMAIN declared :
        /\ (HasSentinel(k) /\ AtKey(k)) => pc \in {"resolve", "failed", "exited"}
        /\ IsUnknownDirective(k) =>
              /\ ~Resolved(k)
              /\ AtKey(k) =>
                    /\ pc \in {"resolve", "failed"}
                    /\ Define[k] = declared[k]
                    /\ executed = <<>>
                    /\ pc = "failed" => (err = ErrUnknownBuiltin /\ exitCode /= 0)

\* C15: a variable whose declared value does not begin with the sentinel,
\* the empty string included, passes resolution without error and keeps
\* its declared value.
C15_LiteralUntouched ==
    \A k \in DOMAIN declared :
        ~HasSentinel(k) =>
            /\ AtKey(k) => pc = "resolve"
            /\ (keys /= <<>> /\ PosOf(k) <= ki) => Define[k] = declared[k]

\* The run is in, or past, the loop over the actions.
InActions == pc \in {"loop", "find", "translate", "execute", "capture", "done"}

\* keys lists every declared variable once.
KeysComplete ==
    /\ Len(keys) = Cardinality(DOMAIN declared)
    /\ {keys[i] : i \in DOMAIN keys} = DOMAIN declared

\* C16: resolution runs once, and is over, every variable visited, before
\* an action is interpolated or dispatched; a run whose resolution returns
\* an error (unknown directive, missing argument, failed user lookup) ends
\* in Failed with a non-zero status and no action dispatched.
C16_ResolveOnceBeforeActions ==
    /\ [](/\ (InActions \/ executed /= <<>>) => (KeysComplete /\ ki = Len(keys) + 1)
          /\ (pc \in {"SetupArgs", "resolve"}) => (executed = <<>> /\ idx = 0)
          /\ (pc = "failed" /\ idx = 0) =>
                /\ executed = <<>>
                /\ exitCode /= 0
                /\ err \in {ErrUnknownBuiltin, ErrMissingArg, ErrSelectUser,
                             ErrFindMe, ErrFindUser})
    /\ [][/\ pc' = "SetupArgs" => pc = "SetupArgs"
          /\ pc' = "resolve" => pc \in {"SetupArgs", "resolve"}
          /\ keys' /= keys => pc = "SetupArgs"
          /\ (pc = "resolve" /\ pc' = "failed") => (idx' = 0 /\ executed' = <<>>)
          /\ (pc = "failed" /\ idx = 0) => pc' = "failed"
          /\ InActions => (ki' = ki /\ prompts' = prompts)]_vars

\* C16 witness: a script of two actions whose variable n, declared ~x,
\* stopped the run in resolution.
C16_Witness ==
    /\ pc = "failed"
    /\ err = ErrUnknownBuiltin
    /\ Len(Actions) = 2
    /\ idx = 0
    /\ executed = <<>>
    /\ exitCode = 1

\* The variables of order p that are declared ~choose_user, in that
\* order: the prompts a run that visits the variables in order p shows
\* until one of them ends the run.
RECURSIVE PromptKeys(_)
PromptKeys(p) ==
    IF p = <<>> THEN <<>>
    ELSE IF declared[Head(p)] = <<"~", "c", "h", "o", "o", "s", "e", "_", "u", "s", "e", "r">>
         THEN <<Head(p)>> \o PromptKeys(Tail(p))
         ELSE PromptKeys(Tail(p))

IsPrefix(q1, q2) == Len(q1) <= Len(q2) /\ SubSeq(q2, 1, Len(q1)) = q1

\* C17: the variables prompted for so far are the first of the prompts of
\* every run on the same define section, whatever order the sort leaves
\* the variables of that run in: the define section alone fixes the order
\* of the prompts, also when several variables are declared ~choose_user.
C17_PromptOrderDetermined ==
    \A p \in SortedByValue(declared) : IsPrefix(prompts, PromptKeys(p))

\* Byte-wise lexicographic order of strings: a is a prefix of b, or the two
\* first differ at a position where a has the smaller byte.
LexLeq(a, b) ==
    \/ IsPrefix(a, b)
    \/ \E i \in 1..Len(a) :
          /\ i <= Len(b)
          /\ SubSeq(a, 1, i - 1) = SubSeq(b, 1, i - 1)
          /\ Ord(a[i]) < Ord(b[i])

\* C18: SetupArgs visits the variables in non-decreasing lexicographic
\* order of their declared values: once the keys are sorted, whenever a
\* stands before b the declared value of a is at most that of b, a
\* variable resolved while another is not has the smaller or equal
\* declared value, and the order never changes afterwards, whatever the
\* resolution writes to Define.
C18_VisitByDeclaredValue ==
    /\ [](pc /= "SetupArgs" =>
            /\ KeysComplete
            /\ \A i, j \in DOMAIN keys :
                  i < j => LexLeq(declared[keys[i]], declared[keys[j]])
            /\ \A a, b \in DOMAIN declared :
                  (Resolved(a) /\ ~Resolved(b)) => LexLeq(declared[a], declared[b]))
    /\ [][pc /= "SetupArgs" =>
            /\ keys' = keys
            /\ ki' \in {ki, ki + 1}
            /\ \A k \in DOMAIN declared : Define'[k] /= Define[k] => AtKey(k)]_vars

\* C18 witness: u, declared ~1, was visited before n, declared ~me, and
\* the values they resolved to stand in the opposite order.
C18_Witness ==
    /\ pc = "loop"
    /\ keys = <<(<<"u">>), (<<"n">>)>>
    /\ declared[<<"u">>] = <<"~", "1">>
    /\ declared[<<"n">>] = <<"~", "m", "e">>
    /\ Define[<<"u">>] = <<"w">>
    /\ Define[<<"n">>] = <<"j", "o", "e">>
    /\ ~LexLeq(Define[<<"u">>], Define[<<"n">>])

\* The pass of the loop for action idx is past its first step.
PassBegun == idx \in DOMAIN Actions /\ pc /= "loop"

NotExecuted == \A j \in DOMAIN executed : executed[j].idx < idx

\* The action property of a record is missing, or is not a string.
NoActionName(rec) == <<"a", "c", "t", "i", "o", "n">> \notin DOMAIN rec.m

BadActionName(rec) ==
    /\ ~NoActionName(rec)
    /\ rec.m[<<"a", "c", "t", "i", "o", "n">>].t /= "string"

\* C19 as stated: an action record with a leaf, at any depth, that is
\* neither a string, a sequence nor a mapping fails at its interpolation
\* with the unsupported-type error; it is neither translated nor
\* dispatched and it is the last action of the run.
C19_UnsupportedAlwaysTypeError ==
    (PassBegun /\ HasUnsupportedLeaf(Actions[idx])) =>
        /\ pc = "failed"
        /\ err = ErrUnexpectedType
        /\ NotExecuted

\* C19 amended: such a record ends the run before it is translated or
\* dispatched: with the error for a missing action property or for one
\* that is not a string when that is the case, else with the
\* unsupported-type error or, when the record also holds a reference to an
\* undefined variable, possibly with the undefined-variable error.
C19_UnsupportedFailsBeforeTranslation ==
    (PassBegun /\ HasUnsupportedLeaf(Actions[idx])) =>
        /\ pc = "failed"
        /\ NotExecuted
        /\ installed \subseteq {executed[j].name : j \in DOMAIN executed}
        /\ NoActionName(Actions[idx]) => err = ErrNoAction
        /\ BadActionName(Actions[idx]) => err = ErrInvalidAction
        /\ (~NoActionName(Actions[idx]) /\ ~BadActionName(Actions[idx])) =>
              /\ err \in {ErrUnexpectedType, ErrUnknownVariable}
              /\ err = ErrUnknownVariable => HasUndefinedRef(Actions[idx], Define)

\* C19 witness: after a first action was dispatched, the second failed on
\* the number among its positional arguments.
C19_Witness ==
    /\ pc = "failed"
    /\ err = ErrUnexpectedType
    /\ idx = 2
    /\ Len(executed) = 1
    /\ <<"a", "r", "g", "s">> \in DOMAIN Actions[2].m
    /\ HasUnsupportedLeaf(Actions[2].m[<<"a", "r", "g", "s">>])

\* What one execution reported through the sink: the key of its last call,
\* or the empty string of a sink that was never called.
Reported(e) == IF e.calls = <<>> THEN <<>> ELSE e.calls[Len(e.calls)]

\* C20: the sink of an action is empty when the action is dispatched, and
\* the step that stores issue_key after a successful create or clone
\* stores what that very execution reported: the key of its own call of
\* the sink, never one reported to an earlier action, and the empty string
\* when the sink was not called, whatever issue_key held before.
C20_CaptureOwnKeyOnly ==
    /\ [](pc \in {"translate", "execute"} => consumer = <<>>)
    /\ [](pc = "capture" =>
            /\ executed /= <<>>
            /\ Last(executed).idx = idx
            /\ Last(executed).ok
            /\ consumer = Reported(Last(executed)))
    /\ [][(pc = "capture" /\ pc' = "loop" /\ name \in {sCreate, sClone}) =>
            /\ <<"i", "s", "s", "u", "e", "_", "k", "e", "y">> \in DOMAIN Define'
            /\ Define'[<<"i", "s", "s", "u", "e", "_", "k", "e", "y">>]
                  = Reported(Last(executed))]_vars

\* C20 witness: a create reported P-7, which was stored, and the clone
\* after it succeeded without calling the sink: issue_key is empty again.
C20_Witness ==
    /\ pc = "loop"
    /\ Len(executed) = 2
    /\ executed[1].name = sCreate
    /\ executed[1].calls = <<(<<"P", "-", "7">>)>>
    /\ executed[2].name = sClone
    /\ executed[2].ok
    /\ executed[2].calls = <<>>
    /\ Define[<<"i", "s", "s", "u", "e", "_", "k", "e", "y">>] = <<>>

\* The request made last, and the directories that list an entry named
\* filename.
LastRequest == requested[Len(requested)]

Holders == {p \in DOMAIN tree : \E i \in DOMAIN tree[p] : tree[p][i] = <<"f">>}

\* Every request so far was answered, with 200 or 404, the root with 200.
OnlyListingsAndNotFound ==
    /\ requested /= <<>>
    /\ requested[1].status = 200
    /\ \A i \in DOMAIN requested : requested[i].status \in {200, 404}

\* C21: a 404 for a path other than the root does not end the search,
\* which goes on with the next queued path or, the queue being empty,
\* ends with the no-such-artifact error; a 404 for the root, and only
\* that, gives the no-artifacts error; the queue is never read while
\* empty and no path is requested twice; a search that met nothing but
\* listings and 404s ends with a path or with the no-such-artifact
\* error, with the path of an entry named filename whenever a
\* directory of the tree lists one.
C21_NotFoundContinues ==
    /\ fpc /= "panic"
    /\ fpc = "loop" => queue /= <<>>
    /\ \A i, j \in DOMAIN requested : i /= j => requested[i].path /= requested[j].path
    /\ (requested /= <<>> /\ LastRequest.status = 404) =>
          IF LastRequest.path = <<>>
          THEN fpc = "failed" /\ findErr = ErrNoArtifacts
          ELSE \/ fpc = "loop"
               \/ fpc = "failed" /\ findErr = ErrNoSuchArtifact /\ queue = <<>>
    /\ findErr = ErrNoArtifacts => (LastRequest.status = 404 /\ LastRequest.path = <<>>)
    /\ (fpc \in {"returned", "failed"} /\ OnlyListingsAndNotFound) =>
          /\ fpc = "returned" \/ findErr = ErrNoSuchArtifact
          /\ fpc = "returned" <=> Holders /= {}
    /\ fpc = "returned" =>
          \E p \in Holders : foundPath = (IF p = <<>> THEN <<"f">> ELSE p \o <<"/", "f">>)

====
